---------------------------- MODULE Spec2Model ----------------------------
(***************************************************************************)
(* PIDA chat backend (src/main.py and its collaborators): the access gate  *)
(* verify_active_subscription, the identity check get_current_user and the *)
(* per-request coroutine stream_chat_response_generator, as state          *)
(* machines.  Several chat-stream requests run concurrently on one event   *)
(* loop; a step of the model is the code of one request between two        *)
(* suspension points (an await or a yield).                                *)
(*                                                                         *)
(* Text that is only compared or concatenated (prompts, fragments,         *)
(* context blocks) is a TLA+ string; an email, which the code lower-cases, *)
(* strips and splits, is a sequence of one-character strings.              *)
(***************************************************************************)
EXTENDS Naturals, Sequences, FiniteSets, TLC

(***************************************************************************)
(* Bounds of the model.                                                    *)
(***************************************************************************)
\* longest email, in characters, that the bounded gate specification draws
MaxEmailLen == 4
\* most chunks the model stream hands out in one generation
MaxChunks == 2

\* the chat-stream requests in flight on the event loop
Requests == {"r1", "r2"}

(***************************************************************************)
(* Python string operations the gate and the identity check use.           *)
(***************************************************************************)
Chars == {"a", "d", "D", "@", " "}

LowerChar(c) == IF c = "D" THEN "d" ELSE c

\* str.lower()
lower(s) == [i \in 1..Len(s) |-> LowerChar(s[i])]

\* str.strip(): leading and trailing whitespace removed
RECURSIVE lstrip(_)
lstrip(s) == IF s # <<>> /\ Head(s) = " " THEN lstrip(Tail(s)) ELSE s

RECURSIVE rstrip(_)
rstrip(s) == IF s # <<>> /\ s[Len(s)] = " " THEN rstrip(SubSeq(s, 1, Len(s) - 1)) ELSE s

strip(s) == rstrip(lstrip(s))

\* "@" in s
HasAt(s) == \E i \in 1..Len(s) : s[i] = "@"

AtPositions(s) == {i \in 1..Len(s) : s[i] = "@"}

MaxOf(S) == CHOOSE x \in S : \A y \in S : y <= x

MinOf(S) == CHOOSE x \in S : \A y \in S : x <= y

\* s.split("@")[-1]: what follows the last "@" (s itself when there is none)
SplitLast(s) ==
    IF AtPositions(s) = {} THEN s
    ELSE SubSeq(s, MaxOf(AtPositions(s)) + 1, Len(s))

\* s.split("@")[1]: what lies between the first "@" and the next one
SplitSecond(s) ==
    LET first == MinOf(AtPositions(s))
        later == {i \in AtPositions(s) : i > first}
    IN  IF later = {} THEN SubSeq(s, first + 1, Len(s))
        ELSE SubSeq(s, first + 1, MinOf(later) - 1)

\* every string over Chars of at most n characters
RECURSIVE StringsUpTo(_)
StringsUpTo(n) ==
    IF n = 0 THEN {<<>>}
    ELSE LET shorter == StringsUpTo(n - 1)
         IN  shorter \cup {Append(s, c) : s \in {t \in shorter : Len(t) = n - 1}, c \in Chars}

(***************************************************************************)
(* State.                                                                  *)
(***************************************************************************)
VARIABLES
    ADMIN_DOMAINS,        \* settings.ADMIN_DOMAINS, after parse_json_list
    ADMIN_EMAILS,         \* settings.ADMIN_EMAILS, after parse_json_list
    model,                \* gemini_client.model is not None
    search_bound,         \* vertex_search_client has an attribute `search`
    subscriptions,        \* customers/{uid}/subscriptions: the statuses on record
    conversations,        \* history store: <<uid, convo_id>> -> messages, in order
    pc,                   \* per request: the stage it is suspended at
    http,                 \* per request: HTTP status of the response (0: none yet)
    user,                 \* per request: the decoded token (current_user)
    events,               \* per request: the SSE events yielded so far
    history_for_gemini,   \* per request: local of the generator
    pending,              \* per request: search_tasks not yet completed
    combined_context,     \* per request: local of the generator
    final_prompt,         \* per request: local of the generator
    full_response_text,   \* per request: local of the generator
    chunks,               \* per request: chunks the model stream has handed out
    gen_failed,           \* per request: the model call raised
    ops                   \* per request: the collaborator calls made, in order

vars == <<ADMIN_DOMAINS, ADMIN_EMAILS, model, search_bound, subscriptions,
          conversations, pc, http, user, events, history_for_gemini, pending,
          combined_context, final_prompt, full_response_text, chunks, gen_failed,
          ops>>

settingsVars == <<ADMIN_DOMAINS, ADMIN_EMAILS, model, search_bound, subscriptions>>

localVars == <<history_for_gemini, pending, combined_context, final_prompt,
               full_response_text, chunks, gen_failed>>

(***************************************************************************)
(* Identities and stores.                                                  *)
(***************************************************************************)
Uids == {"u1", "u2", "u3", "u4"}

NoUser == [uid |-> "", email |-> <<>>]

\* the identities of the chat specifications: one of an allow-listed domain,
\* one with an active subscription, one without
UserStaff == [uid |-> "u1", email |-> <<"a", "@", "d">>]

UserSubscriber == [uid |-> "u2", email |-> <<"d", "@", "a">>]

UserVisitor == [uid |-> "u3", email |-> <<"a", "@", "a">>]

ChatUsers == {UserStaff, UserSubscriber, UserVisitor}

\* every identity a token can carry, within MaxEmailLen
AllUsers == [uid : Uids, email : StringsUpTo(MaxEmailLen)]

SubscriptionRecords ==
    [u \in Uids |-> CASE u = "u1" -> {}
                      [] u = "u2" -> {"active"}
                      [] u = "u3" -> {"canceled"}
                      [] OTHER    -> {"trialing", "past_due"}]

\* the conversation of the request's path parameter: each request of the
\* model addresses conversation "c1" of its user
convo_id == "c1"

ConvoKeys == Uids \X {convo_id}

\* chat_request.prompt of request r
Prompt(r) == IF r = "r1" THEN "pregunta 1" ELSE "pregunta 2"


(***************************************************************************)
(* Messages, events and the per-request trace.                             *)
(***************************************************************************)
\* ChatMessage(role=..., content=...); `by` stands for what the store adds to
\* tell two messages apart (the timestamp assigned at persistence)
ChatMessage(role, content, r) == [role |-> role, content |-> content, by |-> r]

\* create_sse_event(data): the frame "data: <json>\n\n" is kept as its payload
create_sse_event(data) == data

StatusEvent(message) == create_sse_event([event |-> "status", message |-> message])

TextEvent(chunk) == create_sse_event([text |-> chunk])

DoneEvent == create_sse_event([event |-> "done"])

ErrorEvent(detail) == [error |-> detail]

INTERNAL_ERROR == "Ocurrio un error interno al generar la respuesta."

IsStatus(e) == "event" \in DOMAIN e /\ e.event = "status"

IsDone(e) == "event" \in DOMAIN e /\ e.event = "done"

IsText(e) == "text" \in DOMAIN e

IsError(e) == "error" \in DOMAIN e

IsTerminal(e) == IsDone(e) \/ IsError(e)

\* an entry of ops: a call of a collaborator and whether it returned
Call(name, arg, ok) == [call |-> name, arg |-> arg, ok |-> ok]

\* an entry of ops: the exception that `except Exception` of the generator caught
Caught(stage) == [call |-> "except", arg |-> stage, ok |-> FALSE]

Emit(r, evs) == events' = [events EXCEPT ![r] = @ \o evs]

Log(r, entries) == ops' = [ops EXCEPT ![r] = @ \o entries]

Goto(r, stage) == pc' = [pc EXCEPT ![r] = stage]

(***************************************************************************)
(* src/core/security.py: get_current_user.                                 *)
(***************************************************************************)
Credentials == {"missing", "expired", "invalid", "unverifiable", "valid"}

\* the HTTP status get_current_user ends with (200: the token is returned)
get_current_user(credential, decoded_token) ==
    LET email == lower(decoded_token.email)
        domain == IF HasAt(email) THEN SplitSecond(email) ELSE <<>>
        allowed_domains == {lower(strip(d)) : d \in ADMIN_DOMAINS}
        allowed_emails == {lower(strip(e)) : e \in ADMIN_EMAILS}
        has_restrictions == allowed_domains # {} \/ allowed_emails # {}
    IN  CASE credential = "missing" -> 401
          [] credential = "expired" -> 401
          [] credential = "invalid" -> 401
          [] credential = "unverifiable" -> 500
          [] OTHER ->
               IF has_restrictions /\ ~(domain \in allowed_domains \/ email \in allowed_emails)
               THEN 403
               ELSE 200

\* POST /chat-stream/{convo_id}: the dependency get_current_user, then
\* chat_stream_handler starts the streaming response
ChatStreamHandler(r, tokens) ==
    /\ pc[r] = "idle"
    /\ \E credential \in Credentials, decoded_token \in tokens :
         LET code == get_current_user(credential, decoded_token)
         IN  /\ http' = [http EXCEPT ![r] = code]
             /\ IF code = 200
                THEN /\ user' = [user EXCEPT ![r] = decoded_token]
                     /\ Goto(r, "GATING")
                ELSE /\ user' = user
                     /\ Goto(r, "rejected")
    /\ UNCHANGED <<settingsVars, conversations, events, localVars, ops>>

(***************************************************************************)
(* src/main.py: verify_active_subscription.                                *)
(***************************************************************************)
\* the allow-list test of lines 194-200
IsVip(current_user) ==
    LET user_email == lower(strip(current_user.email))
        email_domain == IF HasAt(user_email) THEN SplitLast(user_email) ELSE <<>>
    IN  email_domain \in ADMIN_DOMAINS \/ user_email \in ADMIN_EMAILS

\* mutant: the query filters on "active" alone, a trialing record is not found
ActiveSubscriptions_ActiveOnly(uid) == {s \in subscriptions[uid] : s = "active"}

\* subscriptions_ref.where("status", "in", ["active", "trialing"]).limit(1)
ActiveSubscriptions(uid) == {s \in subscriptions[uid] : s \in {"active", "trialing"}}

Granted(queried) == [raised |-> FALSE, status_code |-> 200, detail |-> "", queried |-> queried]

Raised(code, detail, queried) ==
    [raised |-> TRUE, status_code |-> code, detail |-> detail, queried |-> queried]

\* mutant: the `if not results` test is lost, an empty result grants access
verify_active_subscription_NoDeny(current_user, store_ok) ==
    IF IsVip(current_user) THEN Granted(FALSE)
    ELSE IF ~store_ok
         THEN Raised(500, "Error interno verificando suscripcion.", TRUE)
    ELSE Granted(TRUE)

\* mutant: the subscription query is issued before the allow-list is looked at
verify_active_subscription_QueryFirst(current_user, store_ok) ==
    IF ~store_ok
    THEN Raised(500, "Error interno verificando suscripcion.", TRUE)
    ELSE IF ActiveSubscriptions(current_user.uid) # {} \/ IsVip(current_user)
         THEN Granted(TRUE)
    ELSE Raised(403, "No tienes una suscripcion activa.", TRUE)

\* mutant: the handler of line 212 answers 403, a failing store reads as
\* "not subscribed"
verify_active_subscription_FailureDenies(current_user, store_ok) ==
    IF IsVip(current_user) THEN Granted(FALSE)
    ELSE IF ~store_ok \/ ActiveSubscriptions(current_user.uid) = {}
         THEN Raised(403, "No tienes una suscripcion activa.", TRUE)
    ELSE Granted(TRUE)

\* what the gate does for current_user when the subscription store answers
\* (store_ok) or fails: it returns, or raises HTTPException(status_code, detail);
\* queried: whether the subscription query was issued
verify_active_subscription(current_user, store_ok) ==
    IF IsVip(current_user) THEN Granted(FALSE)
    ELSE IF ~store_ok
         THEN Raised(500, "Error interno verificando suscripcion.", TRUE)
    ELSE IF ActiveSubscriptions(current_user.uid) = {}
         THEN Raised(403, "No tienes una suscripcion activa.", TRUE)
    ELSE Granted(TRUE)


(***************************************************************************)
(* History store (src/modules/firestore_client.py, not in the sources):    *)
(* an ordered, append-only list of messages per user and conversation.     *)
(***************************************************************************)
add_message_to_conversation(store, user_id, cid, message) ==
    [store EXCEPT ![<<user_id, cid>>] = Append(@, message)]

get_conversation_messages(store, user_id, cid) == store[<<user_id, cid>>]

(***************************************************************************)
(* src/modules/gemini_client.py: prepare_history_for_vertex.               *)
(***************************************************************************)
Content(role, text) == [role |-> role, text |-> text]

prepare_history_for_vertex(history) ==
    [i \in 1..Len(history) |->
        Content(IF history[i].role = "user" THEN "user" ELSE "model", history[i].content)]

\* history[:-1]
AllButLast(s) == IF s = <<>> THEN <<>> ELSE SubSeq(s, 1, Len(s) - 1)

(***************************************************************************)
(* src/main.py: stream_chat_response_generator, lines 217-243.             *)
(***************************************************************************)
\* mutant: the handler of line 270 logs and yields nothing
Fail_NoEvent(r, stage) ==
    /\ events' = events
    /\ Goto(r, "finished")

\* lines 270-273: the exception of `stage` is caught, the error event is
\* yielded and the generator ends
Fail(r, stage) ==
    /\ Emit(r, <<ErrorEvent(INTERNAL_ERROR)>>)
    /\ Goto(r, "finished")

\* mutant: the `return` of line 223 is lost, the generator goes on after the
\* error event of the gate
Gating_NoReturn(r) ==
    /\ pc[r] = "GATING"
    /\ \E store_ok \in BOOLEAN :
         LET gate == verify_active_subscription(user[r], store_ok)
         IN  /\ Log(r, IF gate.queried THEN <<Call("sub_query", user[r].uid, store_ok)>>
                       ELSE <<>>)
             /\ IF gate.raised
                THEN Emit(r, <<ErrorEvent(gate.detail)>>)
                ELSE events' = events
             /\ Goto(r, "PERSIST_USER_TURN")
    /\ UNCHANGED <<settingsVars, conversations, http, user, localVars>>

\* mutant: a refused attempt is recorded in the conversation
Gating_RecordsRefusal(r) ==
    /\ pc[r] = "GATING"
    /\ \E store_ok \in BOOLEAN :
         LET gate == verify_active_subscription(user[r], store_ok)
         IN  /\ Log(r, IF gate.queried THEN <<Call("sub_query", user[r].uid, store_ok)>>
                       ELSE <<>>)
             /\ IF gate.raised
                THEN /\ Emit(r, <<ErrorEvent(gate.detail)>>)
                     /\ conversations' = add_message_to_conversation(
                            conversations, user[r].uid, convo_id,
                            ChatMessage("user", Prompt(r), r))
                     /\ Goto(r, "finished")
                ELSE /\ events' = events
                     /\ conversations' = conversations
                     /\ Goto(r, "PERSIST_USER_TURN")
    /\ UNCHANGED <<settingsVars, http, user, localVars>>

\* lines 218-223: the gate; an HTTPException ends the stream with its detail
Gating(r) ==
    /\ pc[r] = "GATING"
    /\ \E store_ok \in BOOLEAN :
         LET gate == verify_active_subscription(user[r], store_ok)
         IN  /\ Log(r, IF gate.queried THEN <<Call("sub_query", user[r].uid, store_ok)>>
                       ELSE <<>>)
             /\ IF gate.raised
                THEN /\ Emit(r, <<ErrorEvent(gate.detail)>>)
                     /\ Goto(r, "finished")
                ELSE /\ events' = events
                     /\ Goto(r, "PERSIST_USER_TURN")
    /\ UNCHANGED <<settingsVars, conversations, http, user, localVars>>

\* mutant: the append of the user message (line 230) is lost
PersistUserTurn_NoAppend(r) ==
    /\ pc[r] = "PERSIST_USER_TURN"
    /\ Emit(r, <<StatusEvent("Iniciando...")>>)
    /\ Goto(r, "READ_HISTORY")
    /\ UNCHANGED <<settingsVars, conversations, http, user, localVars, ops>>

\* mutant: the first status event is yielded before the append is awaited
PersistUserTurn_StatusFirst(r) ==
    /\ pc[r] = "PERSIST_USER_TURN"
    /\ \E ok \in BOOLEAN :
         IF ok
         THEN /\ conversations' = add_message_to_conversation(
                     conversations, user[r].uid, convo_id,
                     ChatMessage("user", Prompt(r), r))
              /\ Log(r, <<Call("add_message", "user", TRUE)>>)
              /\ Emit(r, <<StatusEvent("Iniciando...")>>)
              /\ Goto(r, "READ_HISTORY")
         ELSE /\ conversations' = conversations
              /\ Log(r, <<Call("add_message", "user", FALSE), Caught("PERSIST_USER_TURN")>>)
              /\ Emit(r, <<StatusEvent("Iniciando..."), ErrorEvent(INTERNAL_ERROR)>>)
              /\ Goto(r, "finished")
    /\ UNCHANGED <<settingsVars, http, user, localVars>>

\* lines 229-233: the user message is appended, then the first status event
PersistUserTurn(r) ==
    /\ pc[r] = "PERSIST_USER_TURN"
    /\ \E ok \in BOOLEAN :
         IF ok
         THEN /\ conversations' = add_message_to_conversation(
                     conversations, user[r].uid, convo_id,
                     ChatMessage("user", Prompt(r), r))
              /\ Log(r, <<Call("add_message", "user", TRUE)>>)
              /\ Emit(r, <<StatusEvent("Iniciando...")>>)
              /\ Goto(r, "READ_HISTORY")
         ELSE /\ conversations' = conversations
              /\ Log(r, <<Call("add_message", "user", FALSE), Caught("PERSIST_USER_TURN")>>)
              /\ Fail(r, "PERSIST_USER_TURN")
    /\ UNCHANGED <<settingsVars, http, user, localVars>>

\* lines 235-238: the history is read back and its last element dropped
ReadHistory(r) ==
    /\ pc[r] = "READ_HISTORY"
    /\ \E ok \in BOOLEAN :
         IF ok
         THEN LET history_from_db ==
                      get_conversation_messages(conversations, user[r].uid, convo_id)
              IN  /\ history_for_gemini' =
                        [history_for_gemini EXCEPT
                            ![r] = prepare_history_for_vertex(AllButLast(history_from_db))]
                  /\ Log(r, <<Call("get_messages", "", TRUE)>>)
                  /\ Emit(r, <<StatusEvent("Consultando jurisprudencia...")>>)
                  /\ Goto(r, "SEARCH_TASKS")
         ELSE /\ history_for_gemini' = history_for_gemini
              /\ Log(r, <<Call("get_messages", "", FALSE), Caught("READ_HISTORY")>>)
              /\ Fail(r, "READ_HISTORY")
    /\ UNCHANGED <<settingsVars, conversations, http, user, pending, combined_context,
                   final_prompt, full_response_text, chunks, gen_failed>>

\* the retrieval sources of search_tasks, in submission order
Sources == <<"vertex", "rag">>

SourceSet == {Sources[i] : i \in 1..Len(Sources)}

\* lines 240-245: search_tasks is built.  vertex_search_client defines
\* search_legal_docs and no `search`: evaluating vertex_search_client.search
\* raises AttributeError before any retrieval call is created
BuildSearchTasks(r) ==
    /\ pc[r] = "SEARCH_TASKS"
    /\ IF search_bound
       THEN /\ pending' = [pending EXCEPT ![r] = SourceSet]
            /\ combined_context' = [combined_context EXCEPT ![r] = ""]
            /\ Log(r, <<Call("search", "vertex", TRUE), Call("search", "rag", TRUE)>>)
            /\ events' = events
            /\ Goto(r, "RETRIEVING")
       ELSE /\ UNCHANGED <<pending, combined_context>>
            /\ Log(r, <<Caught("RETRIEVING")>>)
            /\ Fail(r, "RETRIEVING")
    /\ UNCHANGED <<settingsVars, conversations, http, user, history_for_gemini,
                   final_prompt, full_response_text, chunks, gen_failed>>

(***************************************************************************)
(* Retrieval sources.                                                      *)
(***************************************************************************)
RAG_HEADER == "### Contexto de Documentos Internos (RAG): "

\* src/modules/rag_client.py, search_internal_documents: what the call gives
\* for each outcome of the POST to the RAG service.  The handlers of
\* httpx.TimeoutException and httpx.RequestError (lines 61-67) format
\* RAG_API_URL, a name the module never binds: the NameError raised inside
\* the handler leaves the function
search_internal_documents(outcome) ==
    CASE outcome = "results" ->
           [raised |-> FALSE, text |-> RAG_HEADER \o "**Fuente:** **<doc>** "]
      [] outcome = "no_results" ->
           [raised |-> FALSE, text |-> ""]
      [] outcome = "timeout" ->
           [raised |-> TRUE, text |-> ""]
      [] outcome = "network_error" ->
           [raised |-> TRUE, text |-> ""]
      [] OTHER ->
           [raised |-> FALSE,
            text |-> RAG_HEADER \o "Error al procesar la busqueda en los documentos internos. "]

RagOutcomes == {"results", "no_results", "timeout", "network_error", "http_error"}

\* vertex_search_client.search, which the sources do not hold: a retrieval
\* source as the design describes one, query in and context text out, a
\* failure degraded to the empty text
vertex_search(outcome) ==
    IF outcome = "results"
    THEN [raised |-> FALSE, text |-> "### Vertex: jurisprudencia "]
    ELSE [raised |-> FALSE, text |-> ""]

VertexOutcomes == {"results", "failure"}

Outcomes(source) == IF source = "rag" THEN RagOutcomes ELSE VertexOutcomes

Retrieve(source, outcome) ==
    IF source = "rag" THEN search_internal_documents(outcome) ELSE vertex_search(outcome)

\* mutant: the status event carries i, not i + 1
CompletionNumber_FromZero(r) == Len(Sources) - Cardinality(pending[r])

\* number the next completion gets: i + 1 of enumerate(as_completed(...))
CompletionNumber(r) == Len(Sources) - Cardinality(pending[r]) + 1

\* lines 246-249: the next task to complete is awaited, its text appended to
\* the context and a status event yielded
SourceCompleted(r, source) ==
    /\ pc[r] = "RETRIEVING"
    /\ source \in pending[r]
    /\ \E outcome \in Outcomes(source) :
         LET result == Retrieve(source, outcome)
         IN  IF result.raised
             THEN /\ UNCHANGED <<pending, combined_context>>
                  /\ Log(r, <<Call("search_done", source, FALSE), Caught("RETRIEVING")>>)
                  /\ Fail(r, "RETRIEVING")
             ELSE /\ pending' = [pending EXCEPT ![r] = @ \ {source}]
                  /\ combined_context' = [combined_context EXCEPT ![r] = @ \o result.text]
                  /\ Log(r, <<Call("search_done", source, TRUE)>>)
                  /\ Emit(r, <<StatusEvent("Fuente " \o ToString(CompletionNumber(r))
                                           \o " procesada...")>>)
                  /\ pc' = pc
    /\ UNCHANGED <<settingsVars, conversations, http, user, history_for_gemini,
                   final_prompt, full_response_text, chunks, gen_failed>>

(***************************************************************************)
(* Prompt assembly and generation.                                         *)
(***************************************************************************)
\* request.headers.get('X-Country-Code', None), as the f-string renders it
CountryCodes == {"None", "CR"}

\* mutant: an absent hint leaves the geographic line out
FinalPrompt_HintOmitted(country_code, context, prompt) ==
    (IF country_code = "None" THEN "" ELSE "Contexto geografico: " \o country_code \o "\n")
        \o context \o "\n\n---\n\nPregunta del usuario: " \o prompt

\* line 253
FinalPrompt(country_code, context, prompt) ==
    "Contexto geografico: " \o country_code \o "\n" \o context
        \o "\n\n---\n\nPregunta del usuario: " \o prompt

\* mutant: the loop of line 246 is left after its first iteration
Assemble_AfterFirst(r) ==
    /\ pc[r] = "RETRIEVING"
    /\ pending[r] # SourceSet
    /\ \E country_code \in CountryCodes :
         final_prompt' = [final_prompt EXCEPT
                             ![r] = FinalPrompt(country_code, combined_context[r], Prompt(r))]
    /\ full_response_text' = [full_response_text EXCEPT ![r] = ""]
    /\ Emit(r, <<StatusEvent("Generando respuesta...")>>)
    /\ Goto(r, "CALL_MODEL")
    /\ UNCHANGED <<settingsVars, conversations, http, user, history_for_gemini, pending,
                   combined_context, chunks, gen_failed, ops>>

\* lines 251-253: all sources have completed; the last status event is
\* yielded and the prompt assembled
Assemble(r) ==
    /\ pc[r] = "RETRIEVING"
    /\ pending[r] = {}
    /\ \E country_code \in CountryCodes :
         final_prompt' = [final_prompt EXCEPT
                             ![r] = FinalPrompt(country_code, combined_context[r], Prompt(r))]
    /\ full_response_text' = [full_response_text EXCEPT ![r] = ""]
    /\ Emit(r, <<StatusEvent("Generando respuesta...")>>)
    /\ Goto(r, "CALL_MODEL")
    /\ UNCHANGED <<settingsVars, conversations, http, user, history_for_gemini, pending,
                   combined_context, chunks, gen_failed, ops>>

\* gemini_client.py line 46 and line 79: what generate_streaming_response
\* yields in place of an exception
MODEL_UNAVAILABLE == "Error: El modelo de IA no esta configurado correctamente."

MODEL_PROBLEM == "Hubo un problema al contactar al servicio de IA."

\* chunk.text of the chunks the model stream may hand out
ModelChunks == {"", "Hola", " mundo"}

\* mutant: the chunk is forwarded and not accumulated (line 262 lost)
Forward_NoAccumulate(r, chunk) ==
    /\ Emit(r, <<TextEvent(chunk)>>)
    /\ full_response_text' = full_response_text

\* main.py lines 261-262: a yielded chunk is forwarded and accumulated
Forward(r, chunk) ==
    /\ Emit(r, <<TextEvent(chunk)>>)
    /\ full_response_text' = [full_response_text EXCEPT ![r] = @ \o chunk]

\* the prompt and the history have gone to the model; the generator reads
\* neither them nor the context again, and the model keeps them no longer
Handed(r) ==
    /\ history_for_gemini' = [history_for_gemini EXCEPT ![r] = <<>>]
    /\ combined_context' = [combined_context EXCEPT ![r] = ""]
    /\ final_prompt' = [final_prompt EXCEPT ![r] = ""]

\* main.py lines 256-260 with gemini_client.py lines 44-47: no model was
\* loaded; the generator yields a sentence and ends
ModelUnavailable(r) ==
    /\ pc[r] = "CALL_MODEL"
    /\ ~model
    /\ Handed(r)
    /\ Forward(r, MODEL_UNAVAILABLE)
    /\ gen_failed' = [gen_failed EXCEPT ![r] = TRUE]
    /\ Log(r, <<Call("generate", "", FALSE)>>)
    /\ Goto(r, "PERSIST_MODEL_TURN")
    /\ UNCHANGED <<settingsVars, conversations, http, user, pending, chunks>>

\* main.py lines 256-260 with gemini_client.py lines 49-68: the history and
\* the prompt are sent with generate_content_async, which opens the stream or
\* raises; lines 77-79 turn the exception into a yielded sentence
OpenModelStream(r) ==
    /\ pc[r] = "CALL_MODEL"
    /\ model
    /\ Handed(r)
    /\ \E ok \in BOOLEAN :
         /\ Log(r, <<Call("generate", "", ok)>>)
         /\ IF ok
            THEN /\ UNCHANGED <<events, full_response_text, gen_failed>>
                 /\ Goto(r, "GENERATING")
            ELSE /\ Forward(r, MODEL_PROBLEM)
                 /\ gen_failed' = [gen_failed EXCEPT ![r] = TRUE]
                 /\ Goto(r, "PERSIST_MODEL_TURN")
    /\ UNCHANGED <<settingsVars, conversations, http, user, pending, chunks>>

\* gemini_client.py lines 71-75: the next chunk of the stream; one without
\* text is skipped
ModelChunk(r) ==
    /\ pc[r] = "GENERATING"
    /\ chunks[r] < MaxChunks
    /\ chunks' = [chunks EXCEPT ![r] = @ + 1]
    /\ \E chunk \in ModelChunks :
         IF chunk # "" THEN Forward(r, chunk)
         ELSE UNCHANGED <<events, full_response_text>>
    /\ UNCHANGED <<settingsVars, conversations, pc, http, user, history_for_gemini,
                   pending, combined_context, final_prompt, gen_failed, ops>>

\* gemini_client.py lines 77-79: the stream raised; the handler yields a
\* sentence and the generator ends
ModelFails(r) ==
    /\ pc[r] = "GENERATING"
    /\ Forward(r, MODEL_PROBLEM)
    /\ gen_failed' = [gen_failed EXCEPT ![r] = TRUE]
    /\ Goto(r, "PERSIST_MODEL_TURN")
    /\ UNCHANGED <<settingsVars, conversations, http, user, history_for_gemini, pending,
                   combined_context, final_prompt, chunks, ops>>

\* the model stream ends
ModelEnds(r) ==
    /\ pc[r] = "GENERATING"
    /\ Goto(r, "PERSIST_MODEL_TURN")
    /\ UNCHANGED <<settingsVars, conversations, http, user, events, localVars, ops>>

\* main.py lines 264-268: a non-empty answer is appended, then `done`
PersistModelTurn(r) ==
    /\ pc[r] = "PERSIST_MODEL_TURN"
    /\ IF full_response_text[r] # ""
       THEN \E ok \in BOOLEAN :
              IF ok
              THEN /\ conversations' = add_message_to_conversation(
                          conversations, user[r].uid, convo_id,
                          ChatMessage("model", full_response_text[r], r))
                   /\ Log(r, <<Call("add_message", "model", TRUE)>>)
                   /\ Emit(r, <<DoneEvent>>)
                   /\ Goto(r, "finished")
              ELSE /\ conversations' = conversations
                   /\ Log(r, <<Call("add_message", "model", FALSE),
                               Caught("PERSIST_MODEL_TURN")>>)
                   /\ Fail(r, "PERSIST_MODEL_TURN")
       ELSE /\ UNCHANGED <<conversations, ops>>
            /\ Emit(r, <<DoneEvent>>)
            /\ Goto(r, "finished")
    /\ UNCHANGED <<settingsVars, http, user, localVars>>

(***************************************************************************)
(* Initial state and the program as the sources have it.                   *)
(***************************************************************************)
InitWith(domainChoices, emailChoices, bindings) ==
    /\ ADMIN_DOMAINS \in domainChoices
    /\ ADMIN_EMAILS \in emailChoices
    /\ model \in BOOLEAN
    /\ search_bound \in bindings
    /\ subscriptions = SubscriptionRecords
    /\ conversations = [k \in ConvoKeys |-> <<>>]
    /\ pc = [r \in Requests |-> "idle"]
    /\ http = [r \in Requests |-> 0]
    /\ user = [r \in Requests |-> NoUser]
    /\ events = [r \in Requests |-> <<>>]
    /\ history_for_gemini = [r \in Requests |-> <<>>]
    /\ pending = [r \in Requests |-> {}]
    /\ combined_context = [r \in Requests |-> ""]
    /\ final_prompt = [r \in Requests |-> ""]
    /\ full_response_text = [r \in Requests |-> ""]
    /\ chunks = [r \in Requests |-> 0]
    /\ gen_failed = [r \in Requests |-> FALSE]
    /\ ops = [r \in Requests |-> <<>>]

\* config.py lines 50-51: the default allow-list names domains and no email;
\* a deployment may also configure none
Init == InitWith({{}, {<<"d">>}}, {{}}, {FALSE})

Next ==
    \E r \in Requests :
        \/ ChatStreamHandler(r, ChatUsers)
        \/ Gating(r)
        \/ PersistUserTurn(r)
        \/ ReadHistory(r)
        \/ BuildSearchTasks(r)

Spec == Init /\ [][Next]_vars

(***************************************************************************)
(* The program with vertex_search_client.search bound to a retrieval       *)
(* source: the stages after line 243, which the program as the sources     *)
(* have it never enters.                                                   *)
(***************************************************************************)
InitFanout == InitWith({{}, {<<"d">>}}, {{}}, BOOLEAN)

NextFanout ==
    \E r \in Requests :
        \/ ChatStreamHandler(r, ChatUsers)
        \/ Gating(r)
        \/ PersistUserTurn(r)
        \/ ReadHistory(r)
        \/ BuildSearchTasks(r)
        \/ \E source \in SourceSet : SourceCompleted(r, source)
        \/ Assemble(r)
        \/ ModelUnavailable(r)
        \/ OpenModelStream(r)
        \/ ModelChunk(r)
        \/ ModelFails(r)
        \/ ModelEnds(r)
        \/ PersistModelTurn(r)

SpecFanout == InitFanout /\ [][NextFanout]_vars

(***************************************************************************)
(* Progress.  The event loop resumes the generator of a request whenever   *)
(* the call it awaits has returned or raised, and every such call does one *)
(* of the two: a step of the generator that stays possible is eventually   *)
(* taken.  Nothing obliges a request to arrive.  No step of a generator    *)
(* waits for another request (its guard reads its own pc and locals only), *)
(* so progress is checked on one request, with vertex_search_client.search *)
(* bound or not.                                                           *)
(***************************************************************************)
GeneratorStep(r) ==
    \/ Gating(r)
    \/ PersistUserTurn(r)
    \/ ReadHistory(r)
    \/ BuildSearchTasks(r)
    \/ \E source \in SourceSet : SourceCompleted(r, source)
    \/ Assemble(r)
    \/ ModelUnavailable(r)
    \/ OpenModelStream(r)
    \/ ModelChunk(r)
    \/ ModelFails(r)
    \/ ModelEnds(r)
    \/ PersistModelTurn(r)

NextTurn ==
    \/ ChatStreamHandler("r1", ChatUsers)
    \/ GeneratorStep("r1")

Resumed == WF_vars(GeneratorStep("r1"))

LiveTurn == InitFanout /\ [][NextTurn]_vars /\ Resumed

(***************************************************************************)
(* Client disconnect.  The server cancels the streaming response: the      *)
(* generator, suspended at an await or at a yield, is resumed with         *)
(* CancelledError or closed with GeneratorExit.  Neither is an Exception,  *)
(* so the handler of main.py line 270 does not run, and the call it was    *)
(* awaiting is abandoned.  Checked on one request, with                    *)
(* vertex_search_client.search bound or not.                               *)
(***************************************************************************)
ActiveStages ==
    {"GATING", "PERSIST_USER_TURN", "READ_HISTORY", "SEARCH_TASKS", "RETRIEVING",
     "CALL_MODEL", "GENERATING", "PERSIST_MODEL_TURN"}

\* mutant: the cancellation is caught by the handler of line 270, as an
\* Exception would be
Disconnect_Caught(r) ==
    /\ pc[r] \in ActiveStages
    /\ Emit(r, <<ErrorEvent(INTERNAL_ERROR)>>)
    /\ Goto(r, "cancelled")
    /\ UNCHANGED <<settingsVars, conversations, http, user, localVars, ops>>

Disconnect(r) ==
    /\ pc[r] \in ActiveStages
    /\ Goto(r, "cancelled")
    /\ UNCHANGED <<settingsVars, conversations, http, user, events, localVars, ops>>

NextAbort ==
    \/ NextTurn
    \/ Disconnect("r1")

SpecAbort == InitFanout /\ [][NextAbort]_vars

(***************************************************************************)
(* The gate alone, on every identity a token can carry within MaxEmailLen  *)
(* and every allow-list over one domain and one address: one request goes  *)
(* through get_current_user and the gate.                                  *)
(***************************************************************************)
InitGate == InitWith(SUBSET {<<"d">>}, SUBSET {<<"a", "@", "a">>}, {FALSE})

NextGate ==
    \/ ChatStreamHandler("r1", AllUsers)
    \/ Gating("r1")

SpecGate == InitGate /\ [][NextGate]_vars

(***************************************************************************)
(* src/main.py lines 281-344: the endpoints that answer with one response. *)
(* A request is "served" when the body of its handler ran to its response, *)
(* "rejected" when get_current_user or the gate refused it, "failed" when   *)
(* the body refused the request's input or its operation raised.  Titles   *)
(* of conversations are not part of the state.                             *)
(***************************************************************************)
\* Depends(get_current_user), then the gate when the handler calls it: the
\* status the request is refused with, 0 when the body of the handler runs
Admission(credential, decoded_token, gated, store_ok) ==
    LET code == get_current_user(credential, decoded_token)
        gate == verify_active_subscription(decoded_token, store_ok)
    IN  IF code # 200
        THEN [status |-> code, authenticated |-> FALSE, queried |-> FALSE]
        ELSE IF gated /\ gate.raised
             THEN [status |-> gate.status_code, authenticated |-> TRUE,
                   queried |-> gate.queried]
        ELSE [status |-> 0, authenticated |-> TRUE, queried |-> gated /\ gate.queried]

\* a handler: `gated` when it awaits verify_active_subscription, `validates`
\* when it raises 400 on an empty title, `operation` the call of its body,
\* `success` the status of its response, `deletes` when the operation removes
\* the conversation
Handler(r, tokens, gated, validates, operation, success, deletes) ==
    /\ pc[r] = "idle"
    /\ \E credential \in Credentials, decoded_token \in tokens,
          store_ok \in BOOLEAN, title_ok \in BOOLEAN, op_ok \in BOOLEAN :
         LET adm == Admission(credential, decoded_token, gated, store_ok)
             refused == adm.status # 0
             invalid == ~refused /\ validates /\ ~title_ok
             ran == ~refused /\ ~invalid
             code == IF refused THEN adm.status
                     ELSE IF invalid THEN 400
                     ELSE IF op_ok THEN success ELSE 500
         IN  /\ http' = [http EXCEPT ![r] = code]
             /\ user' = [user EXCEPT ![r] = IF adm.authenticated THEN decoded_token ELSE @]
             /\ Log(r, (IF adm.queried
                        THEN <<Call("sub_query", decoded_token.uid, store_ok)>>
                        ELSE <<>>)
                       \o (IF ran THEN <<Call(operation, "", op_ok)>> ELSE <<>>))
             /\ conversations' =
                  IF ran /\ op_ok /\ deletes
                  THEN [conversations EXCEPT ![<<decoded_token.uid, convo_id>>] = <<>>]
                  ELSE conversations
             /\ Goto(r, IF refused THEN "rejected"
                        ELSE IF ran /\ op_ok THEN "served" ELSE "failed")
    /\ UNCHANGED <<settingsVars, events, localVars>>

\* GET /conversations, lines 281-284
get_user_conversations(r, tokens) ==
    Handler(r, tokens, TRUE, FALSE, "get_conversations", 200, FALSE)

\* GET /conversations/{convo_id}/messages, lines 286-289
get_conversation_details(r, tokens) ==
    Handler(r, tokens, TRUE, FALSE, "get_conversation_messages", 200, FALSE)

\* POST /conversations, lines 291-298
create_new_empty_conversation(r, tokens) ==
    Handler(r, tokens, TRUE, TRUE, "create_new_conversation", 201, FALSE)

\* DELETE /conversations/{convo_id}, lines 300-304
delete_a_conversation(r, tokens) ==
    Handler(r, tokens, TRUE, FALSE, "delete_conversation", 204, TRUE)

\* PATCH /conversations/{convo_id}/title, lines 306-313
update_conversation_title_handler(r, tokens) ==
    Handler(r, tokens, TRUE, TRUE, "update_conversation_title", 204, FALSE)

\* POST /download-chat, lines 322-344: get_current_user is its one dependency
\* and its body never awaits verify_active_subscription
download_chat(r, tokens) ==
    Handler(r, tokens, FALSE, FALSE, "create_chat_file", 200, FALSE)

(***************************************************************************)
(* src/main.py lines 347-403: POST /check-vip-access.                      *)
(***************************************************************************)
\* the subscription query of lines 365-367 is issued for every admitted
\* request.  With a record found, line 371 evaluates jsonify, a name main.py
\* neither imports nor defines: the NameError is raised inside the try and
\* caught at line 373 like a failure of the store, and the handler goes on
\* to the allow-list test of lines 394-403
check_vip_access_handler(r, tokens) ==
    /\ pc[r] = "idle"
    /\ \E credential \in Credentials, decoded_token \in tokens, store_ok \in BOOLEAN :
         LET code == get_current_user(credential, decoded_token)
             results == IF store_ok THEN ActiveSubscriptions(decoded_token.uid) ELSE {}
             name_error == results # {}
             is_vip_user == IsVip(decoded_token)
         IN  IF code # 200
             THEN /\ http' = [http EXCEPT ![r] = code]
                  /\ Goto(r, "rejected")
                  /\ UNCHANGED <<user, ops>>
             ELSE /\ http' = [http EXCEPT ![r] = 200]
                  /\ user' = [user EXCEPT ![r] = decoded_token]
                  /\ Log(r, <<Call("check_vip_query", decoded_token.uid, store_ok)>>
                            \o (IF name_error THEN <<Caught("check_vip_access")>> ELSE <<>>)
                            \o <<Call("is_vip_user", IF is_vip_user THEN "true" ELSE "false",
                                      TRUE)>>)
                  /\ Goto(r, "served")
    /\ UNCHANGED <<settingsVars, conversations, events, localVars>>

NextVip == check_vip_access_handler("r1", AllUsers)

SpecVip == InitGate /\ [][NextVip]_vars

(***************************************************************************)
(* The HTTP surface: one request to any endpoint but /status.              *)
(***************************************************************************)
\* the identities of this specification: every user id with the emails of
\* the chat identities and one with two "@", which get_current_user and the
\* gate split differently
ApiUsers ==
    [uid : Uids,
     email : {UserStaff.email, UserSubscriber.email, UserVisitor.email,
              <<"@", "d", "@", "a">>}]

NextApi ==
    \/ ChatStreamHandler("r1", ApiUsers)
    \/ Gating("r1")
    \/ PersistUserTurn("r1")
    \/ get_user_conversations("r1", ApiUsers)
    \/ get_conversation_details("r1", ApiUsers)
    \/ create_new_empty_conversation("r1", ApiUsers)
    \/ delete_a_conversation("r1", ApiUsers)
    \/ update_conversation_title_handler("r1", ApiUsers)
    \/ download_chat("r1", ApiUsers)

SpecApi == InitGate /\ [][NextApi]_vars

(***************************************************************************)
(* Reading the stream and the trace of a request.                          *)
(***************************************************************************)
TerminalPositions(r) == {i \in DOMAIN events[r] : IsTerminal(events[r][i])}

ErrorPositions(r) == {i \in DOMAIN events[r] : IsError(events[r][i])}

DonePositions(r) == {i \in DOMAIN events[r] : IsDone(events[r][i])}

TextPositions(r) == {i \in DOMAIN events[r] : IsText(events[r][i])}

StatusPositions(r) == {i \in DOMAIN events[r] : IsStatus(events[r][i])}

SourceProcessed(k) == "Fuente " \o ToString(k) \o " procesada..."

SourceProcessedPositions(r) ==
    {i \in StatusPositions(r) :
        \E k \in 1..Len(Sources) : events[r][i].message = SourceProcessed(k)}

\* the fragments of the text events of a stream, concatenated in order
RECURSIVE ConcatTexts(_)
ConcatTexts(evs) ==
    IF evs = <<>> THEN ""
    ELSE (IF IsText(Head(evs)) THEN Head(evs).text ELSE "") \o ConcatTexts(Tail(evs))

\* positions in the trace of r of the calls of `name`
Calls(r, name) == {i \in DOMAIN ops[r] : ops[r][i].call = name}

Appends(r, role, ok) == {i \in DOMAIN ops[r] : ops[r][i] = Call("add_message", role, ok)}

CaughtAt(r, stage) == {i \in DOMAIN ops[r] : ops[r][i] = Caught(stage)}

\* the conversation request r writes to, once its token is decoded
Conversation(r) == conversations[<<user[r].uid, convo_id>>]

\* positions in its conversation of the messages request r appended
Stored(r, role) ==
    IF user[r] = NoUser THEN {}
    ELSE {i \in DOMAIN Conversation(r) :
            Conversation(r)[i].by = r /\ Conversation(r)[i].role = role}

Streaming(r) == pc[r] \notin {"idle", "rejected"}

Finished(r) == pc[r] = "finished"

\* the gate decided DENIED for r: not allow-listed, the subscription query
\* answered, and no record is active or trialing
Denied(r) ==
    /\ pc[r] \notin {"idle", "rejected", "GATING"}
    /\ ~IsVip(user[r])
    /\ ops[r] # <<>>
    /\ ops[r][1] = Call("sub_query", user[r].uid, TRUE)
    /\ ActiveSubscriptions(user[r].uid) = {}

\* r got as far as building its retrieval calls (line 240)
ReachedRetrieving(r) == Calls(r, "get_messages") # {} /\ CaughtAt(r, "READ_HISTORY") = {}

(***************************************************************************)
(* C1.  A chat-stream request that runs to completion has emitted exactly  *)
(* one terminal event (done or error), as its last event; while it runs it *)
(* has emitted none; a stream never holds both done and error.             *)
(***************************************************************************)
C1_OneTerminalEvent ==
    \A r \in Requests :
        /\ Finished(r) => TerminalPositions(r) = {Len(events[r])} /\ events[r] # <<>>
        /\ ~Finished(r) => TerminalPositions(r) = {}
        /\ ErrorPositions(r) = {} \/ DonePositions(r) = {}

\* a stream that ended with an error after status events
C1_Witness ==
    \E r \in Requests :
        /\ Finished(r)
        /\ StatusPositions(r) # {}
        /\ IsError(events[r][Len(events[r])])

(***************************************************************************)
(* C2.  When the gate decides DENIED the stream is exactly one error       *)
(* event: no status, text or done event.                                   *)
(***************************************************************************)
C2_DeniedOnlyError ==
    \A r \in Requests :
        Denied(r) =>
            /\ Finished(r)
            /\ Len(events[r]) = 1
            /\ IsError(events[r][1])

C2_Witness ==
    \E r \in Requests : Denied(r) /\ events[r] = <<ErrorEvent("No tienes una suscripcion activa.")>>

(***************************************************************************)
(* C3.  Retrieval cannot fail the turn: no exception of the retrieval      *)
(* stage is caught, and a turn that got to retrieval and has finished has  *)
(* called the model.                                                       *)
(***************************************************************************)
C3_RetrievalCannotFail ==
    \A r \in Requests :
        /\ CaughtAt(r, "RETRIEVING") = {}
        /\ Finished(r) /\ ReachedRetrieving(r) => Calls(r, "generate") # {}

(***************************************************************************)
(* C4.  A finished turn that got to retrieval has emitted as many "Fuente  *)
(* k procesada..." status events as there are retrieval sources.           *)
(***************************************************************************)
C4_OneStatusPerSource ==
    \A r \in Requests :
        Finished(r) /\ ReachedRetrieving(r) =>
            Cardinality(SourceProcessedPositions(r)) = Len(Sources)

C7_StoredEqualsStreamed ==
    \A r \in Requests :
        DonePositions(r) # {} =>
            LET text == ConcatTexts(events[r])
            IN  /\ text # "" <=> Stored(r, "model") # {}
                /\ Cardinality(Stored(r, "model")) <= 1
                /\ \A i \in Stored(r, "model") : Conversation(r)[i].content = text

C7_Witness ==
    \E r \in Requests :
        /\ DonePositions(r) # {}
        /\ ConcatTexts(events[r]) = "Hola mundo"
        /\ \E i \in Stored(r, "model") : Conversation(r)[i].content = "Hola mundo"

(***************************************************************************)
(* C8.  The history prepared for the model (history_from_db[:-1]) leaves   *)
(* out the user message the request itself just appended and holds every   *)
(* message that preceded it in the conversation.                           *)
(***************************************************************************)
C8_HistoryExcludesOwnTurn ==
    \A r \in Requests :
        pc[r] \in {"SEARCH_TASKS", "RETRIEVING", "CALL_MODEL"} =>
            /\ \A i \in DOMAIN history_for_gemini[r] :
                 history_for_gemini[r][i] # Content("user", Prompt(r))
            /\ \A own \in Stored(r, "user") :
                 \A j \in 1..(own - 1) :
                    /\ j \in DOMAIN history_for_gemini[r]
                    /\ history_for_gemini[r][j] =
                         Content(Conversation(r)[j].role, Conversation(r)[j].content)

(***************************************************************************)
(* C9.  Within one turn the user message is appended before any retrieval  *)
(* call is started and before the model message, the model message only    *)
(* after the model call, and the turn makes at most two appends; in the    *)
(* conversation the user message of a turn precedes its model message.     *)
(***************************************************************************)
C9_UserBeforeModel ==
    \A r \in Requests :
        /\ Cardinality(Calls(r, "add_message")) <= 2
        /\ Cardinality(Appends(r, "user", TRUE) \cup Appends(r, "user", FALSE)) <= 1
        /\ \A s \in Calls(r, "search") : \E u \in Appends(r, "user", TRUE) : u < s
        /\ \A m \in Appends(r, "model", TRUE) \cup Appends(r, "model", FALSE) :
              /\ \E u \in Appends(r, "user", TRUE) : u < m
              /\ \E g \in Calls(r, "generate") : g < m
              /\ \A c \in DOMAIN ops[r] : c > m => ops[r][c].call = "except"
        /\ \A m \in Stored(r, "model") : \E u \in Stored(r, "user") : u < m

C9_Witness ==
    \E r \in Requests :
        /\ Finished(r)
        /\ Appends(r, "user", TRUE) # {}
        /\ Appends(r, "model", TRUE) # {}
        /\ Stored(r, "user") # {}
        /\ Stored(r, "model") # {}

(***************************************************************************)
(* C10.  An identity whose email domain (what follows the last "@") is an  *)
(* authorized domain, or whose lower-cased email is an authorized email,   *)
(* passes the gate, and no query of the subscription store is issued for   *)
(* it, whatever its subscription records.                                  *)
(***************************************************************************)
AllowListed(identity) ==
    LET email == lower(identity.email)
        domain == IF HasAt(email) THEN SplitLast(email) ELSE <<>>
    IN  domain \in ADMIN_DOMAINS \/ email \in ADMIN_EMAILS

C10_AllowListedBypass ==
    \A r \in Requests :
        pc[r] \notin {"idle", "rejected", "GATING"} /\ AllowListed(user[r]) =>
            /\ pc[r] = "PERSIST_USER_TURN"
            /\ events[r] = <<>>
            /\ Calls(r, "sub_query") = {}

\* an allow-listed identity with no active subscription, its domain in upper
\* case in the token, has passed the gate
C10_Witness ==
    \E r \in Requests :
        /\ pc[r] = "PERSIST_USER_TURN"
        /\ AllowListed(user[r])
        /\ user[r].email # lower(user[r].email)
        /\ ActiveSubscriptions(user[r].uid) = {}
        /\ Calls(r, "sub_query") = {}

(***************************************************************************)
(* Reading what the gate decided for a request.                            *)
(***************************************************************************)
\* the subscription store holds a record of uid with status active or trialing
HoldsLiveRecord(uid) ==
    \E status \in subscriptions[uid] : status = "active" \/ status = "trialing"

\* the gate queried the subscription store for r, and the store answered (ok)
\* or failed
Queried(r, ok) == \E i \in DOMAIN ops[r] : ops[r][i] = Call("sub_query", user[r].uid, ok)

\* the gate was evaluated for r and returned
PassedGate(r) ==
    \/ pc[r] \in {"PERSIST_USER_TURN", "READ_HISTORY", "SEARCH_TASKS", "RETRIEVING",
                  "CALL_MODEL", "GENERATING", "PERSIST_MODEL_TURN"}
    \/ pc[r] = "finished" /\ Calls(r, "add_message") # {}

\* the failure of the gate reached the caller of r: as the detail of the one
\* event of a chat stream, as the status of the response elsewhere
SurfacedAs(r, code, detail) ==
    IF events[r] # <<>>
    THEN Finished(r) /\ events[r] = <<ErrorEvent(detail)>>
    ELSE pc[r] = "rejected" /\ http[r] = code

(***************************************************************************)
(* C11.  For an identity that is not allow-listed and a subscription store *)
(* that answers, the gate grants access exactly when the store holds a     *)
(* record of the user id with status active or trialing; no other status   *)
(* grants access.                                                          *)
(***************************************************************************)
C11_GrantedIffLiveRecord ==
    \A r \in Requests :
        /\ PassedGate(r) /\ ~AllowListed([email |-> strip(user[r].email)]) =>
              HoldsLiveRecord(user[r].uid) /\ Queried(r, TRUE)
        /\ Queried(r, TRUE) => (PassedGate(r) <=> HoldsLiveRecord(user[r].uid))

\* a trialing subscriber that is not allow-listed has passed the gate
C11_Witness ==
    \E r \in Requests :
        /\ PassedGate(r)
        /\ ~AllowListed([email |-> strip(user[r].email)])
        /\ Queried(r, TRUE)
        /\ "trialing" \in subscriptions[user[r].uid]
        /\ "active" \notin subscriptions[user[r].uid]

(***************************************************************************)
(* C12.  A "not subscribed" decision of the gate always reaches the caller *)
(* as the authorization failure (403, "No tienes una suscripcion activa.") *)
(* and a failing subscription store always as the internal failure (500,   *)
(* "Error interno verificando suscripcion."); neither is ever followed by  *)
(* the body of the handler or by a further event of the stream.            *)
(***************************************************************************)
C12_DeniedIs403StoreFailureIs500 ==
    \A r \in Requests :
        /\ Queried(r, TRUE) /\ ~HoldsLiveRecord(user[r].uid) =>
              SurfacedAs(r, 403, "No tienes una suscripcion activa.")
        /\ Queried(r, FALSE) =>
              SurfacedAs(r, 500, "Error interno verificando suscripcion.")

\* the store failed for a subscriber of a conversation endpoint: 500
C12_Witness ==
    \E r \in Requests :
        /\ Queried(r, FALSE)
        /\ HoldsLiveRecord(user[r].uid)
        /\ events[r] = <<>>
        /\ http[r] = 500
        /\ pc[r] = "rejected"

(***************************************************************************)
(* C13.  get_current_user refuses a request only as Unauthenticated: every *)
(* request it refuses is answered 401, so a request with a valid           *)
(* credential goes on to the gate.                                         *)
(***************************************************************************)
C13_RejectedOnlyAs401 ==
    \A r \in Requests : pc[r] = "rejected" => http[r] = 401

(***************************************************************************)
(* C14.  A retrieval call never propagates an exception to the generator:  *)
(* every retrieval call that completes returns a text.                     *)
(***************************************************************************)
C14_RetrievalAbsorbsFailures ==
    \A r \in Requests :
        /\ \A i \in Calls(r, "search_done") : ops[r][i].ok
        /\ CaughtAt(r, "RETRIEVING") # {} => ~search_bound

(***************************************************************************)
(* Reading the retrieval stage of a request.                               *)
(***************************************************************************)
\* the sources whose calls have returned to r, in the order they completed
CompletedSources(r) ==
    LET done == SelectSeq(ops[r], LAMBDA e : e.call = "search_done" /\ e.ok)
    IN  [i \in 1..Len(done) |-> done[i].arg]

\* the texts a call of `source` can return
SourceTexts(source) ==
    {Retrieve(source, outcome).text :
        outcome \in {o \in Outcomes(source) : ~Retrieve(source, o).raised}}

\* the concatenations of one text of each source of `sources`, in that order
RECURSIVE ContextsInOrder(_)
ContextsInOrder(sources) ==
    IF sources = <<>> THEN {""}
    ELSE {text \o rest : text \in SourceTexts(Head(sources)),
                         rest \in ContextsInOrder(Tail(sources))}

\* the messages of the status events of r that announce a completed source
SourceStatusMessages(r) ==
    LET announcing == SelectSeq(events[r],
                         LAMBDA e : IsStatus(e) /\ e.message \notin
                            {"Iniciando...", "Consultando jurisprudencia...",
                             "Generando respuesta..."})
    IN  [i \in 1..Len(announcing) |-> announcing[i].message]

(***************************************************************************)
(* C15.  In every interleaving of the retrieval calls, the k-th source to  *)
(* complete is announced by the status event "Fuente k procesada...",      *)
(* emitted before the next completion is taken, and the combined context   *)
(* is the concatenation of the sources' texts in the order they completed. *)
(***************************************************************************)
C15_CompletionOrder ==
    \A r \in Requests :
        /\ SourceStatusMessages(r) =
              [k \in 1..Len(CompletedSources(r)) |-> SourceProcessed(k)]
        /\ pc[r] \in {"RETRIEVING", "CALL_MODEL"} =>
              combined_context[r] \in ContextsInOrder(CompletedSources(r))

\* the source submitted second completed first, both with a text
C15_Witness ==
    \E r \in Requests :
        /\ pc[r] = "CALL_MODEL"
        /\ CompletedSources(r) = <<"rag", "vertex">>
        /\ SourceStatusMessages(r) = <<"Fuente 1 procesada...", "Fuente 2 procesada...">>
        /\ combined_context[r] =
              search_internal_documents("results").text \o vertex_search("results").text

C17_UserAppendFailureOnlyError ==
    \A r \in Requests :
        Appends(r, "user", FALSE) # {} =>
            /\ Finished(r)
            /\ events[r] = <<ErrorEvent(INTERNAL_ERROR)>>
            /\ Calls(r, "get_messages") = {}
            /\ Calls(r, "search") = {}
            /\ Calls(r, "generate") = {}
            /\ Stored(r, "user") = {} /\ Stored(r, "model") = {}

C17_Witness ==
    \E r \in Requests :
        /\ Appends(r, "user", FALSE) # {}
        /\ CaughtAt(r, "PERSIST_USER_TURN") # {}
        /\ events[r] = <<ErrorEvent(INTERNAL_ERROR)>>

(***************************************************************************)
(* C18.  The prompt handed to the model is, in this order, the geographic  *)
(* line, the combined context, the separator and the literal question of   *)
(* the user, whatever the context (the empty one included) and whatever    *)
(* the geographic hint (an absent one is rendered "None", not omitted).    *)
(***************************************************************************)
C18_PromptShape ==
    \A r \in Requests :
        pc[r] = "CALL_MODEL" =>
            \E hint \in {"None", "CR"} :
                final_prompt[r] =
                    "Contexto geografico: " \o hint \o "\n"
                    \o combined_context[r]
                    \o "\n\n---\n\n"
                    \o "Pregunta del usuario: " \o Prompt(r)

\* no source gave a text and the request carried no X-Country-Code header
C18_Witness ==
    \E r \in Requests :
        /\ pc[r] = "CALL_MODEL"
        /\ combined_context[r] = ""
        /\ final_prompt[r] =
              "Contexto geografico: None\n\n\n---\n\nPregunta del usuario: " \o Prompt(r)

(***************************************************************************)
(* C19.  A request to any endpoint but /status is served (the body of its  *)
(* handler runs, or its chat turn starts) only if it carried a valid       *)
(* credential and the gate granted it: its identity is allow-listed, or    *)
(* the subscription query answered and found an active or trialing record. *)
(***************************************************************************)
Served(r) == pc[r] = "served" \/ Calls(r, "add_message") # {}

C19_ServedOnlyPastGate ==
    \A r \in Requests :
        Served(r) =>
            /\ user[r] # NoUser
            /\ \/ AllowListed([email |-> strip(user[r].email)])
               \/ Queried(r, TRUE) /\ HoldsLiveRecord(user[r].uid)

(***************************************************************************)
(* C20.  While every awaited call returns or raises, a chat-stream request *)
(* whose stream has started eventually emits its terminal event, done or   *)
(* error.                                                                  *)
(***************************************************************************)
C20_EventuallyTerminal ==
    \A r \in Requests : Streaming(r) ~> (TerminalPositions(r) # {})

\* a stream that went through retrieval and generation has ended with done
C20_Witness ==
    \E r \in Requests :
        /\ Finished(r)
        /\ DonePositions(r) = {Len(events[r])}
        /\ TextPositions(r) # {}
        /\ Calls(r, "search_done") # {}

(***************************************************************************)
(* C21.  A turn goes through its stages in the one order: the user message *)
(* is appended before any retrieval call is started, the model is called   *)
(* only after every retrieval call has completed, the model message is     *)
(* appended only after the model call; every status event precedes every   *)
(* text event, done follows every text event, and an error event is the    *)
(* last thing a turn does.                                                 *)
(***************************************************************************)
C21_StageOrder ==
    \A r \in Requests :
        /\ \A s \in Calls(r, "search") : \E u \in Appends(r, "user", TRUE) : u < s
        /\ \A g \in Calls(r, "generate") :
              /\ Cardinality({d \in Calls(r, "search_done") : d < g /\ ops[r][d].ok})
                    = Len(Sources)
              /\ \A c \in Calls(r, "search") \cup Calls(r, "search_done") : c < g
        /\ \A m \in Calls(r, "add_message") :
              ops[r][m].arg = "model" => \E g \in Calls(r, "generate") : g < m
        /\ \A i \in StatusPositions(r), j \in TextPositions(r) : i < j
        /\ \A j \in TextPositions(r), k \in DonePositions(r) : j < k
        /\ \A e \in ErrorPositions(r) : e = Len(events[r]) /\ Finished(r)
        /\ pc[r] \in {"CALL_MODEL", "GENERATING", "PERSIST_MODEL_TURN"} => pending[r] = {}

\* a turn that went through every stage
C21_Witness ==
    \E r \in Requests :
        /\ Finished(r)
        /\ Cardinality(Calls(r, "search_done")) = Len(Sources)
        /\ Cardinality(StatusPositions(r)) = 5
        /\ Cardinality(TextPositions(r)) = 2
        /\ DonePositions(r) = {Len(events[r])}
        /\ Appends(r, "model", TRUE) # {}

(***************************************************************************)
(* C22.  A chat-stream request refused at the gate, as not subscribed or   *)
(* because the subscription store failed, appends no message and makes no  *)
(* history read, retrieval call or model call; and the step of the gate    *)
(* leaves the allow-list, the subscription store and the history store as  *)
(* they were.                                                              *)
(***************************************************************************)
RefusedAtGate(r) ==
    /\ Finished(r)
    /\ \/ events[r] = <<ErrorEvent("No tienes una suscripcion activa.")>>
       \/ events[r] = <<ErrorEvent("Error interno verificando suscripcion.")>>

GateStep(r) == pc[r] = "GATING" /\ pc'[r] # "GATING"

C22_GateFailureLeavesStores ==
    /\ [](\A r \in Requests :
            RefusedAtGate(r) =>
                /\ Calls(r, "add_message") = {}
                /\ Calls(r, "get_messages") = {}
                /\ Calls(r, "search") = {}
                /\ Calls(r, "generate") = {}
                /\ Stored(r, "user") = {} /\ Stored(r, "model") = {})
    /\ [][\A r \in Requests :
            GateStep(r) =>
                UNCHANGED <<ADMIN_DOMAINS, ADMIN_EMAILS, subscriptions, conversations>>]_vars

\* one request was refused for a failing subscription store while the other
\* had its user message in the same user's conversation
C22_Witness ==
    \E r, q \in Requests :
        /\ RefusedAtGate(r)
        /\ Queried(r, FALSE)
        /\ q # r /\ user[q].uid = user[r].uid
        /\ Stored(q, "user") # {}

(***************************************************************************)
(* C23.  get_current_user and verify_active_subscription agree on who is   *)
(* allow-listed: an identity get_current_user admitted under a configured  *)
(* allow-list is one the gate treats as VIP, and one it admitted with no   *)
(* allow-list configured is VIP for neither.                               *)
(***************************************************************************)
\* get_current_user finds the identity on a configured allow-list
ListedForGetCurrentUser(identity) ==
    /\ ADMIN_DOMAINS # {} \/ ADMIN_EMAILS # {}
    /\ get_current_user("valid", identity) = 200

C23_AllowListEvaluationsAgree ==
    \A r \in Requests :
        user[r] # NoUser => (ListedForGetCurrentUser(user[r]) <=> IsVip(user[r]))

(***************************************************************************)
(* C24.  No rollback on abort: a turn that was cancelled, or that ended in *)
(* error, after its user message was appended leaves that message in the   *)
(* conversation and no model message of its own; a cancelled turn emits    *)
(* neither error nor done; and no step removes or changes a message        *)
(* already in a conversation.                                              *)
(***************************************************************************)
Cancelled(r) == pc[r] = "cancelled"

Aborted(r) == Cancelled(r) \/ (Finished(r) /\ ErrorPositions(r) # {})

IsPrefix(s, t) == Len(s) <= Len(t) /\ SubSeq(t, 1, Len(s)) = s

C24_NoRollbackOnAbort ==
    /\ [](\A r \in Requests :
            /\ Aborted(r) /\ Appends(r, "user", TRUE) # {} =>
                  /\ Cardinality(Stored(r, "user")) = 1
                  /\ \A i \in Stored(r, "user") : Conversation(r)[i].content = Prompt(r)
                  /\ Stored(r, "model") = {}
                  /\ Appends(r, "model", TRUE) = {}
            /\ Cancelled(r) => TerminalPositions(r) = {})
    /\ [][\A k \in ConvoKeys : IsPrefix(conversations[k], conversations'[k])]_vars

\* the client left while the answer was streaming
C24_Witness ==
    \E r \in Requests :
        /\ Cancelled(r)
        /\ TextPositions(r) # {}
        /\ Stored(r, "user") # {}
        /\ Stored(r, "model") = {}

(***************************************************************************)
(* C25.  POST /check-vip-access answers is_vip_user true for a user whose  *)
(* subscription query finds an active or trialing record; otherwise, a     *)
(* failing store included, it answers true exactly when the user is        *)
(* allow-listed, and it never answers with an error for the store.         *)
(***************************************************************************)
VipAnswers(r) == {ops[r][i].arg : i \in Calls(r, "is_vip_user")}

C25_VipAnswer ==
    \A r \in Requests :
        Calls(r, "check_vip_query") # {} =>
            /\ http[r] = 200
            /\ Cardinality(VipAnswers(r)) = 1
            /\ IF Call("check_vip_query", user[r].uid, TRUE) \in {ops[r][i] : i \in DOMAIN ops[r]}
                  /\ HoldsLiveRecord(user[r].uid)
               THEN VipAnswers(r) = {"true"}
               ELSE VipAnswers(r) = {"true"} <=> AllowListed([email |-> strip(user[r].email)])

=============================================================================
